---- MODULE Spec2Model ----
(***************************************************************************)
(* Apigee Edge -> Apigee X migration backend (backend/server.py).          *)
(*                                                                         *)
(* The module models the asynchronous migration pipeline                   *)
(* (start_migration, perform_migration, execute_migration_step,            *)
(* convert_edge_to_apigee_x, cancel_migration) over the Mongo collections  *)
(* it reads and writes, the scoring part of analyze_proxy, and             *)
(* upload_proxy with extract_and_parse_zip_bundle.                         *)
(*                                                                         *)
(* Every "await db....update_one" of the source is one atomic step of the  *)
(* model; the background task of an execution and the HTTP handlers        *)
(* interleave between those steps, as asyncio interleaves them at awaits.  *)
(***************************************************************************)
EXTENDS Integers, Sequences, FiniteSets, TLC

VARIABLES
    openai_client,          \* module global: "client" or None (no API key)
    proxy_files,            \* db.proxy_files: id -> document
    proxy_analyses,         \* db.proxy_analyses: id -> document
    apigee_credentials,     \* db.apigee_credentials: set of stored ids
    migration_executions,   \* db.migration_executions: id -> document
    task,                   \* background tasks: execution id -> frame of perform_migration
    response,               \* status code of the last HTTP response (0: none yet)
    an_policies,            \* analyze_proxy: the policy list under analysis
    an_ai,                  \* analyze_proxy: what analyze_proxy_with_ai returned
    an_result,              \* analyze_proxy: the ProxyAnalysis built, or None
    upload                  \* upload_proxy: the last request handled and what it led to

vars == <<openai_client, proxy_files, proxy_analyses, apigee_credentials,
          migration_executions, task, response, an_policies, an_ai, an_result, upload>>

db_vars == <<proxy_files, proxy_analyses, apigee_credentials, migration_executions>>
an_vars == <<an_policies, an_ai, an_result>>

----------------------------------------------------------------------------
(* Bounds of the model *)

\* number of execution records start_migration may create in one behaviour
MaxExec == 1

----------------------------------------------------------------------------
(* Values *)

None == "None"
Now == "ts"                 \* datetime.now(timezone.utc): set, as opposed to None

ExecIds == 1..MaxExec
UnknownExecId == 0          \* an id no execution record ever has
AnalysisIds == {"a1"}
UnknownAnalysisId == "a9"
ProxyIds == {"p1"}
CredIds == {"c1"}

EdgeContent == "<APIProxy name='orders'><Policies/></APIProxy>"

\* the five step names perform_migration passes to execute_migration_step, in order
StepNames == <<"Validating source proxy",
               "Converting policies to Apigee X format",
               "Generating Apigee X bundle with AI",
               "Validating Apigee X bundle",
               "Deploying to Apigee X (Demo Mode)">>

NumSteps == Len(StepNames)
GenerateStep == 3

\* class PolicyMapping: the fields without a default
PolicyMappingRequired == {"edge_policy", "apigee_x_equivalent", "complexity", "migration_notes"}

\* PolicyMapping(**mapping): pydantic raises when a required field is missing
PolicyMappingBuilds(mapping) == PolicyMappingRequired \subseteq DOMAIN mapping

GoodMapping == [edge_policy |-> "Quota", apigee_x_equivalent |-> "Quota",
                complexity |-> "simple", migration_notes |-> "Direct mapping",
                custom_code_required |-> FALSE]
\* a stored entry without its complexity field
BadMapping == [edge_policy |-> "Quota", apigee_x_equivalent |-> "Quota",
               migration_notes |-> "Direct mapping"]

StoredMappingLists == {<<GoodMapping>>, <<GoodMapping, BadMapping>>}

----------------------------------------------------------------------------
(* Mongo helpers *)

\* the document after {"$set": set, "$push": push}
ApplyUpdate(doc, set, push) ==
    [f \in DOMAIN doc \cup DOMAIN set |->
        IF f \in DOMAIN set THEN set[f]
        ELSE IF f \in DOMAIN push THEN Append(doc[f], push[f])
        ELSE doc[f]]

\* collection.update_one({"id": id}, {"$set": set, "$push": push}): no document, no change
UpdateOne(coll, id, set, push) ==
    IF id \in DOMAIN coll
    THEN [coll EXCEPT ![id] = ApplyUpdate(coll[id], set, push)]
    ELSE coll

NoFields == [f \in {} |-> None]

----------------------------------------------------------------------------
(* Python string helpers *)

Min(a, b) == IF a < b THEN a ELSE b

\* the 0-based offsets at which sub occurs in s
Occurrences(s, sub) ==
    {i \in 0..(Len(s) - Len(sub)) : SubSeq(s, i + 1, i + Len(sub)) = sub}

\* s.find(sub)
StrFind(s, sub) ==
    IF Occurrences(s, sub) = {} THEN -1
    ELSE CHOOSE i \in Occurrences(s, sub) : \A j \in Occurrences(s, sub) : i <= j

\* s.rfind(sub)
StrRFind(s, sub) ==
    IF Occurrences(s, sub) = {} THEN -1
    ELSE CHOOSE i \in Occurrences(s, sub) : \A j \in Occurrences(s, sub) : i >= j

\* s[a:b] for 0 <= a
StrSlice(s, a, b) == SubSeq(s, a + 1, Min(b, Len(s)))

----------------------------------------------------------------------------
(* convert_edge_to_apigee_x *)

\* what openai_client.chat.completions.create can do: raise, or answer with content
OracleResponses == {"Converted: <?xml?><APIProxy name='orders'></APIProxy> Done.",
                    "I cannot convert this proxy."}

OracleOutcomes == {[kind |-> "raise", content |-> None]}
                  \cup {[kind |-> "ok", content |-> r] : r \in OracleResponses}

\* lines 448-458: cut the XML out of the response, or return the whole response
ExtractXml(response_content) ==
    IF StrFind(response_content, "<?xml") # -1
    THEN LET start == StrFind(response_content, "<?xml")
             end == StrRFind(response_content, "</APIProxy>") + Len("</APIProxy>")
         IN  IF end > start THEN StrSlice(response_content, start, end)
             ELSE response_content
    ELSE response_content

\* variant: a failed oracle call yields an empty bundle
convert_edge_to_apigee_x_EmptyOnError(proxy_content, policy_mappings, outcome) ==
    IF openai_client = None THEN proxy_content
    ELSE IF outcome.kind = "raise" THEN ""
    ELSE ExtractXml(outcome.content)

\* the step function of step 3; it never raises
convert_edge_to_apigee_x(proxy_content, policy_mappings, outcome) ==
    IF openai_client = None THEN proxy_content
    ELSE IF outcome.kind = "raise" THEN proxy_content
    ELSE ExtractXml(outcome.content)

----------------------------------------------------------------------------
(* Documents and task frames *)

\* MigrationExecution(...).model_dump() as start_migration builds it
MigrationExecution(id, proxy_analysis_id, proxy_name, credentials_id) ==
    [id |-> id,
     proxy_analysis_id |-> proxy_analysis_id,
     proxy_name |-> proxy_name,
     credentials_id |-> credentials_id,
     status |-> "pending",
     progress |-> 0,
     current_step |-> "Queued for migration",
     steps_completed |-> <<>>,
     steps_failed |-> <<>>,
     migration_log |-> <<>>,
     apigee_x_bundle |-> None,
     deployment_url |-> None,
     error_message |-> None,
     started_at |-> None,
     completed_at |-> None,
     created_at |-> Now]

\* the frame of one perform_migration call: where it is and its local variables
NewTask == [pc |-> "find_execution", step |-> 0, analysis |-> None,
            proxy_file |-> None, apigee_x_bundle |-> None, e |-> None]

TaskAt(id, pc) == id \in DOMAIN task /\ task[id].pc = pc

\* variant: the filter forgets the last status of the pipeline
CancellableStatuses_NoValidating == {"pending", "preparing", "converting"}

\* variant: the filter also matches finished executions
CancellableStatuses_AlsoCompleted ==
    {"pending", "preparing", "converting", "validating", "completed"}

\* variant: the filter also matches failed executions
CancellableStatuses_AlsoFailed ==
    {"pending", "preparing", "converting", "validating", "failed"}

\* the statuses the filter of cancel_migration matches
CancellableStatuses == {"pending", "preparing", "converting", "validating"}

\* variant: the checkpoints of steps 1 and 2 swapped
CheckpointSet_Swapped(k, apigee_x_bundle) ==
    CASE k = 1 -> [progress |-> 50]
      [] k = 2 -> [progress |-> 25, status |-> "converting"]
      [] k = 3 -> [progress |-> 70, apigee_x_bundle |-> apigee_x_bundle]
      [] k = 4 -> [progress |-> 85, status |-> "validating"]

\* variant: the checkpoint of step 2 already stores a bundle
CheckpointSet_EarlyBundle(k, apigee_x_bundle) ==
    CASE k = 1 -> [progress |-> 25]
      [] k = 2 -> [progress |-> 50, status |-> "converting", apigee_x_bundle |-> "<APIProxy/>"]
      [] k = 3 -> [progress |-> 70, apigee_x_bundle |-> apigee_x_bundle]
      [] k = 4 -> [progress |-> 85, status |-> "validating"]

\* the {"$set": ...} written after step k has returned (lines 545-586)
CheckpointSet(k, apigee_x_bundle) ==
    CASE k = 1 -> [progress |-> 25]
      [] k = 2 -> [progress |-> 50, status |-> "converting"]
      [] k = 3 -> [progress |-> 70, apigee_x_bundle |-> apigee_x_bundle]
      [] k = 4 -> [progress |-> 85, status |-> "validating"]

\* lines 529-536
PreparingSet == [status |-> "preparing", progress |-> 10, started_at |-> Now]

\* variant: the last write leaves the status at validating
CompletedSet_StillValidating(proxy_name) ==
    [status |-> "validating",
     progress |-> 100,
     current_step |-> "Migration completed successfully",
     deployment_url |->
        "https://apigee.google.com/organizations/demo-org/environments/dev/apis/" \o proxy_name,
     completed_at |-> Now]

\* variant: the last write also clears the error message
CompletedSet_ClearsError(proxy_name) ==
    [status |-> "completed",
     progress |-> 100,
     current_step |-> "Migration completed successfully",
     deployment_url |->
        "https://apigee.google.com/organizations/demo-org/environments/dev/apis/" \o proxy_name,
     error_message |-> None,
     completed_at |-> Now]

\* lines 596-606
CompletedSet(proxy_name) ==
    [status |-> "completed",
     progress |-> 100,
     current_step |-> "Migration completed successfully",
     deployment_url |->
        "https://apigee.google.com/organizations/demo-org/environments/dev/apis/" \o proxy_name,
     completed_at |-> Now]

\* variant: the handler records the error and leaves the status alone
FailedSet_NoStatus(e) == [error_message |-> e, completed_at |-> Now]

\* variant: the handler does not record when the execution ended
FailedSet_NoCompletedAt(e) == [status |-> "failed", error_message |-> e]

\* lines 610-617
FailedSet(e) == [status |-> "failed", error_message |-> e, completed_at |-> Now]

\* variant: the missing-record branch marks the execution started
MissingSet_Started(what) ==
    [status |-> "failed", error_message |-> what \o " not found", started_at |-> Now]

\* lines 513-516 and 522-525
MissingSet(what) == [status |-> "failed", error_message |-> what \o " not found"]

\* lines 1297-1301
CancelledSet ==
    [status |-> "failed", error_message |-> "Migration cancelled by user", completed_at |-> Now]

StepError == "step error"
MappingError == "validation error for PolicyMapping"

----------------------------------------------------------------------------
(* The migration service: initial state *)

StoredAnalysis(policy_mappings) ==
    [id |-> "a1", proxy_id |-> "p1", proxy_name |-> "orders",
     policy_mappings |-> policy_mappings]

AnalyzeIdle ==
    /\ an_policies = <<>>
    /\ an_ai = [f \in {} |-> None]
    /\ an_result = [status |-> "none"]

\* no upload request has been handled
NoUpload == [state |-> "none"]

Init ==
    /\ openai_client \in {None, "client"}
    /\ \E present \in SUBSET ProxyIds :
          proxy_files = [p \in present |-> [id |-> p, content |-> EdgeContent, file_type |-> "xml"]]
    /\ \E pm \in StoredMappingLists : proxy_analyses = [a \in AnalysisIds |-> StoredAnalysis(pm)]
    /\ apigee_credentials \in SUBSET CredIds
    /\ migration_executions = [x \in {} |-> None]
    /\ task = [x \in {} |-> None]
    /\ response = 0
    /\ AnalyzeIdle
    /\ upload = NoUpload

----------------------------------------------------------------------------
(* HTTP handlers *)

\* bound on the length of MigrationRequest.proxy_analysis_ids
MaxRequestIds == 2

RequestIdLists ==
    UNION {[1..n -> AnalysisIds \cup {UnknownAnalysisId}] : n \in 0..MaxRequestIds}

\* the ids of the request whose analysis find_one returns (the others: "continue")
FoundAnalyses(ids) == SelectSeq(ids, LAMBDA a : a \in DOMAIN proxy_analyses)

\* POST /migrate: one execution record and one background task per analysis found.
\* request.credentials_id is stored as given; it is not looked up.
start_migration(proxy_analysis_ids, credentials_id) ==
    LET found == FoundAnalyses(proxy_analysis_ids)
        n == Cardinality(DOMAIN migration_executions)
        new == (n + 1)..(n + Len(found))
    IN  /\ n + Len(found) <= MaxExec
        /\ migration_executions' =
              [x \in DOMAIN migration_executions \cup new |->
                  IF x \in new
                  THEN MigrationExecution(x, found[x - n],
                                          proxy_analyses[found[x - n]].proxy_name,
                                          credentials_id)
                  ELSE migration_executions[x]]
        /\ task' = [x \in DOMAIN task \cup new |-> IF x \in new THEN NewTask ELSE task[x]]
        /\ response' = 200
        /\ UNCHANGED <<openai_client, proxy_files, proxy_analyses, apigee_credentials,
                       an_vars, upload>>

\* the filter of the update_one of cancel_migration
CancelMatches(execution_id) ==
    /\ execution_id \in DOMAIN migration_executions
    /\ migration_executions[execution_id].status \in CancellableStatuses

\* DELETE /migration/{execution_id}
cancel_migration(execution_id) ==
    /\ migration_executions' =
          IF CancelMatches(execution_id)
          THEN UpdateOne(migration_executions, execution_id, CancelledSet, NoFields)
          ELSE migration_executions
    /\ response' =
          IF CancelMatches(execution_id)
          THEN 200
          ELSE 404
    /\ UNCHANGED <<openai_client, proxy_files, proxy_analyses, apigee_credentials, task,
                   an_vars, upload>>

----------------------------------------------------------------------------
(* The store is shared with other collaborators: an analysis can          *)
(* disappear between the request that referenced it and the background    *)
(* task's read. (A proxy file that is gone is an initial state.)           *)

store_loses_analysis(a) ==
    /\ a \in DOMAIN proxy_analyses
    /\ proxy_analyses' = [x \in DOMAIN proxy_analyses \ {a} |-> proxy_analyses[x]]
    /\ UNCHANGED <<openai_client, proxy_files, apigee_credentials, migration_executions,
                   task, response, an_vars, upload>>

----------------------------------------------------------------------------
(* perform_migration: the background task of one execution *)

pm_frame == <<openai_client, proxy_files, proxy_analyses, apigee_credentials, response,
              an_vars, upload>>

Goto(id, pc) == task' = [task EXCEPT ![id].pc = pc]

\* line 506: find the execution; return if there is none
pm_find_execution(id) ==
    /\ TaskAt(id, "find_execution")
    /\ Goto(id, IF id \in DOMAIN migration_executions THEN "find_analysis" ELSE "done")
    /\ UNCHANGED <<migration_executions, pm_frame>>

\* lines 511-517
pm_find_analysis(id) ==
    /\ TaskAt(id, "find_analysis")
    /\ LET aid == migration_executions[id].proxy_analysis_id
       IN  IF aid \in DOMAIN proxy_analyses
           THEN /\ task' = [task EXCEPT ![id].pc = "find_proxy_file",
                                        ![id].analysis = proxy_analyses[aid]]
                /\ UNCHANGED migration_executions
           ELSE /\ migration_executions' =
                      UpdateOne(migration_executions, id, MissingSet("Analysis"), NoFields)
                /\ Goto(id, "done")
    /\ UNCHANGED pm_frame

\* lines 520-526
pm_find_proxy_file(id) ==
    /\ TaskAt(id, "find_proxy_file")
    /\ LET pid == task[id].analysis.proxy_id
       IN  IF pid \in DOMAIN proxy_files
           THEN /\ task' = [task EXCEPT ![id].pc = "start",
                                        ![id].proxy_file = proxy_files[pid]]
                /\ UNCHANGED migration_executions
           ELSE /\ migration_executions' =
                      UpdateOne(migration_executions, id, MissingSet("Proxy file"), NoFields)
                /\ Goto(id, "done")
    /\ UNCHANGED pm_frame

\* lines 529-536
pm_start(id) ==
    /\ TaskAt(id, "start")
    /\ migration_executions' = UpdateOne(migration_executions, id, PreparingSet, NoFields)
    /\ task' = [task EXCEPT ![id].pc = "step_begin", ![id].step = 1]
    /\ UNCHANGED pm_frame

\* line 568: the PolicyMapping list is built before execute_migration_step is called
MappingsBuild(analysis) ==
    \A i \in 1..Len(analysis.policy_mappings) : PolicyMappingBuilds(analysis.policy_mappings[i])

\* whether the arguments of the call of step k can be evaluated
StepArgsBuild(k, analysis) == k = GenerateStep => MappingsBuild(analysis)

\* line 568 raising: control passes to the handler of perform_migration (line 608)
pm_args_raise(id) ==
    /\ TaskAt(id, "step_begin")
    /\ ~StepArgsBuild(task[id].step, task[id].analysis)
    /\ task' = [task EXCEPT ![id].pc = "except", ![id].e = MappingError]
    /\ UNCHANGED <<migration_executions, pm_frame>>

\* execute_migration_step, lines 468-475
ems_starting(id) ==
    /\ TaskAt(id, "step_begin")
    /\ StepArgsBuild(task[id].step, task[id].analysis)
    /\ LET step == StepNames[task[id].step]
       IN  migration_executions' =
              UpdateOne(migration_executions, id,
                        [current_step |-> step, updated_at |-> Now],
                        [migration_log |-> "Starting: " \o step])
    /\ Goto(id, "step_run")
    /\ UNCHANGED pm_frame

\* what "await step_function(*args)" returns for step k
StepResult(k, frame, outcome) ==
    IF k = GenerateStep
    THEN convert_edge_to_apigee_x(frame.proxy_file.content, frame.analysis.policy_mappings, outcome)
    ELSE None

\* the step functions that can raise: convert_edge_to_apigee_x catches everything
StepMayRaise(k) == k # GenerateStep

\* variant: the deployment step is skipped
AfterStep_SkipsDeployment(k) == IF k >= NumSteps - 1 THEN "complete" ELSE "checkpoint"

\* variant: after the deployment step the task is never resumed
AfterStep_Stalls(k) == IF k = NumSteps THEN "suspended" ELSE "checkpoint"

\* where perform_migration goes after step k has returned
AfterStep(k) == IF k = NumSteps THEN "complete" ELSE "checkpoint"

\* execute_migration_step, lines 478-489: the step function returns
ems_completed(id) ==
    /\ TaskAt(id, "step_run")
    /\ \E outcome \in OracleOutcomes :
          LET k == task[id].step
          IN  /\ migration_executions' =
                    UpdateOne(migration_executions, id, NoFields,
                              [steps_completed |-> StepNames[k],
                               migration_log |-> "Completed: " \o StepNames[k]])
              /\ task' = [task EXCEPT ![id].pc = AfterStep(k),
                                      ![id].apigee_x_bundle =
                                          IF k = GenerateStep
                                          THEN StepResult(k, task[id], outcome)
                                          ELSE @]
    /\ UNCHANGED pm_frame

\* execute_migration_step, lines 491-500: the step function raises
ems_failed(id) ==
    /\ TaskAt(id, "step_run")
    /\ StepMayRaise(task[id].step)
    /\ LET step == StepNames[task[id].step]
       IN  migration_executions' =
              UpdateOne(migration_executions, id, NoFields,
                        [steps_failed |-> step,
                         migration_log |-> "Failed: " \o step \o " - " \o StepError])
    /\ task' = [task EXCEPT ![id].pc = "except", ![id].e = StepError]
    /\ UNCHANGED pm_frame

\* lines 545-548, 557-560, 571-574, 583-586
pm_checkpoint(id) ==
    /\ TaskAt(id, "checkpoint")
    /\ migration_executions' =
          UpdateOne(migration_executions, id,
                    CheckpointSet(task[id].step, task[id].apigee_x_bundle), NoFields)
    /\ task' = [task EXCEPT ![id].pc = "step_begin", ![id].step = @ + 1]
    /\ UNCHANGED pm_frame

\* lines 596-606
pm_complete(id) ==
    /\ TaskAt(id, "complete")
    /\ migration_executions' =
          UpdateOne(migration_executions, id,
                    CompletedSet(task[id].analysis.proxy_name),
                    [migration_log |-> "Migration completed successfully!"])
    /\ Goto(id, "done")
    /\ UNCHANGED pm_frame

\* variant: after the handler's write the failed step is tried once more
pm_except_Retries(id) ==
    /\ TaskAt(id, "except")
    /\ migration_executions' = UpdateOne(migration_executions, id, FailedSet(task[id].e), NoFields)
    /\ Goto(id, IF Len(migration_executions[id].steps_failed) < 2 THEN "step_begin" ELSE "done")
    /\ UNCHANGED pm_frame

\* lines 608-617
pm_except(id) ==
    /\ TaskAt(id, "except")
    /\ migration_executions' = UpdateOne(migration_executions, id, FailedSet(task[id].e), NoFields)
    /\ Goto(id, "done")
    /\ UNCHANGED pm_frame

perform_migration(id) ==
    \/ pm_find_execution(id)
    \/ pm_find_analysis(id)
    \/ pm_find_proxy_file(id)
    \/ pm_start(id)
    \/ pm_args_raise(id)
    \/ ems_starting(id)
    \/ ems_completed(id)
    \/ ems_failed(id)
    \/ pm_checkpoint(id)
    \/ pm_complete(id)
    \/ pm_except(id)

----------------------------------------------------------------------------
(* The migration service *)

Next ==
    \/ \E ids \in RequestIdLists, c \in CredIds : start_migration(ids, c)
    \/ \E id \in ExecIds \cup {UnknownExecId} : cancel_migration(id)
    \/ \E a \in AnalysisIds : store_loses_analysis(a)
    \/ \E id \in ExecIds : perform_migration(id)

Spec == Init /\ [][Next]_vars

\* Every await of a background task returns and the event loop resumes the task:
\* a task that is not finished takes its next step.
SpecLive == Spec /\ \A id \in ExecIds : WF_vars(perform_migration(id))

----------------------------------------------------------------------------
(* analyze_proxy: policy mapping and complexity scoring *)

\* bound on the number of distinct policies of one proxy
MaxPolicies == 3

\* POLICY_MAPPINGS
POLICY_MAPPINGS ==
    [OAuth2 |-> [apigee_x |-> "OAuthV2", complexity |-> "simple", notes |-> "Direct mapping with minimal changes"],
     VerifyAPIKey |-> [apigee_x |-> "VerifyAPIKey", complexity |-> "simple", notes |-> "Same policy, no changes needed"],
     BasicAuthentication |-> [apigee_x |-> "BasicAuthentication", complexity |-> "simple", notes |-> "Direct mapping"],
     SAML |-> [apigee_x |-> "SAMLAssertion", complexity |-> "moderate", notes |-> "May require configuration adjustments"],
     Quota |-> [apigee_x |-> "Quota", complexity |-> "simple", notes |-> "Direct mapping"],
     SpikeArrest |-> [apigee_x |-> "SpikeArrest", complexity |-> "simple", notes |-> "No changes needed"],
     ConcurrentRateLimit |-> [apigee_x |-> "ConcurrentRateLimit", complexity |-> "simple", notes |-> "Direct mapping"],
     JSONtoXML |-> [apigee_x |-> "JSONtoXML", complexity |-> "simple", notes |-> "Direct mapping"],
     XMLtoJSON |-> [apigee_x |-> "XMLtoJSON", complexity |-> "simple", notes |-> "Direct mapping"],
     XSL |-> [apigee_x |-> "XSL", complexity |-> "moderate", notes |-> "May need XSLT validation"],
     JavaScript |-> [apigee_x |-> "JavaScript", complexity |-> "complex", notes |-> "Requires code review and testing"],
     Python |-> [apigee_x |-> "Python", complexity |-> "complex", notes |-> "Custom runtime policy, needs migration planning"],
     LoadBalancer |-> [apigee_x |-> "LoadBalancing", complexity |-> "moderate", notes |-> "Configuration may need updates"],
     ServiceCallout |-> [apigee_x |-> "ServiceCallout", complexity |-> "simple", notes |-> "Direct mapping"],
     RaiseFault |-> [apigee_x |-> "RaiseFault", complexity |-> "simple", notes |-> "Direct mapping"]]
    @@ ("Node.js" :> [apigee_x |-> "NodeJS", complexity |-> "complex",
                      notes |-> "May require updates to Node.js runtime"])

\* the policy names the analysed proxies are drawn from: known ones of each
\* complexity and two the table does not hold
PolicyNames == {"VerifyAPIKey", "Quota", "SAML", "JavaScript", "CustomThing", "LegacyAuth"}

\* list(set(...)): the lists that hold each element of S once, in any order
ListsOfSet(S) ==
    {l \in [1..Cardinality(S) -> S] : \A i, j \in 1..Cardinality(S) : l[i] = l[j] => i = j}

\* the policy lists extract_policies_from_xml / extract_policies_from_bundle can return
PolicyLists ==
    UNION {ListsOfSet(S) : S \in {T \in SUBSET PolicyNames : Cardinality(T) <= MaxPolicies}}

\* lines 837-864: the PolicyMapping appended for one policy
MappingFor(policy) ==
    IF policy \in DOMAIN POLICY_MAPPINGS
    THEN [edge_policy |-> policy,
          apigee_x_equivalent |-> POLICY_MAPPINGS[policy].apigee_x,
          complexity |-> POLICY_MAPPINGS[policy].complexity,
          migration_notes |-> POLICY_MAPPINGS[policy].notes,
          custom_code_required |-> POLICY_MAPPINGS[policy].complexity = "complex"]
    ELSE [edge_policy |-> policy,
          apigee_x_equivalent |-> "Manual Migration Required",
          complexity |-> "complex",
          migration_notes |-> "Custom policy requires manual analysis and migration",
          custom_code_required |-> TRUE]

\* variant: a policy the table does not hold weighs as much as a complex one
WeightOf_UnknownAsComplex(policy) ==
    IF policy \in DOMAIN POLICY_MAPPINGS
    THEN CASE POLICY_MAPPINGS[policy].complexity = "simple" -> 10
           [] POLICY_MAPPINGS[policy].complexity = "moderate" -> 25
           [] OTHER -> 50
    ELSE 50

\* lines 848-864: what one policy adds to total_complexity
WeightOf(policy) ==
    IF policy \in DOMAIN POLICY_MAPPINGS
    THEN CASE POLICY_MAPPINGS[policy].complexity = "simple" -> 10
           [] POLICY_MAPPINGS[policy].complexity = "moderate" -> 25
           [] OTHER -> 50
    ELSE 75

\* variant: the loop appends no mapping for a policy the table does not hold
PolicyMappingsOf_KnownOnly(policies) ==
    LET known == SelectSeq(policies, LAMBDA q : q \in DOMAIN POLICY_MAPPINGS)
    IN  [i \in 1..Len(known) |-> MappingFor(known[i])]

\* the loop of lines 836-864: policy_mappings, one entry per policy, in order
PolicyMappingsOf(policies) == [i \in 1..Len(policies) |-> MappingFor(policies[i])]

\* the loop of lines 836-864: custom_policies
CustomPoliciesOf(policies) == SelectSeq(policies, LAMBDA q : q \notin DOMAIN POLICY_MAPPINGS)

RECURSIVE TotalComplexity(_)
\* the loop of lines 836-864: total_complexity
TotalComplexity(policies) ==
    IF policies = <<>> THEN 0
    ELSE WeightOf(Head(policies)) + TotalComplexity(Tail(policies))

\* Scores are Python floats; the model keeps them exact, as fractions <<num, den>>, den > 0.
Frac(num, den) == <<num, den>>
FracLess(a, b) == a[1] * b[2] < b[1] * a[2]
FracEq(a, b) == a[1] * b[2] = b[1] * a[2]

\* line 870: min(100, total_complexity / len(policies)) if policies else 0
BaseScore(policies) ==
    IF Len(policies) = 0 THEN Frac(0, 1)
    ELSE IF TotalComplexity(policies) > 100 * Len(policies) THEN Frac(100, 1)
    ELSE Frac(TotalComplexity(policies), Len(policies))

\* dict.get(key) is truthy, for a key that holds a number: present and not 0
TruthyNumber(d, key) == key \in DOMAIN d /\ d[key] # 0

\* dict.get(key) is truthy, for a key that holds text: present and not empty
TruthyText(d, key) == key \in DOMAIN d /\ d[key] # ""

\* lines 870-872
FinalScore(policies, ai_analysis) ==
    IF TruthyNumber(ai_analysis, "complexity_score")
    THEN Frac(BaseScore(policies)[1] + ai_analysis.complexity_score * BaseScore(policies)[2],
              2 * BaseScore(policies)[2])
    ELSE BaseScore(policies)

\* variant: a score of exactly 70 still counts as moderate
ComplexityLevel_LooseUpper(complexity_score) ==
    IF FracLess(complexity_score, Frac(30, 1)) THEN "simple"
    ELSE IF ~FracLess(Frac(70, 1), complexity_score) THEN "moderate"
    ELSE "complex"

\* lines 875-883
ComplexityLevel(complexity_score) ==
    IF FracLess(complexity_score, Frac(30, 1)) THEN "simple"
    ELSE IF FracLess(complexity_score, Frac(70, 1)) THEN "moderate"
    ELSE "complex"

\* lines 875-887
MigrationEffort(complexity_score, ai_analysis) ==
    IF TruthyText(ai_analysis, "migration_effort") THEN ai_analysis.migration_effort
    ELSE CASE ComplexityLevel(complexity_score) = "simple" -> "1-2 hours"
           [] ComplexityLevel(complexity_score) = "moderate" -> "4-8 hours"
           [] OTHER -> "1-3 days"

\* line 900
AiRecommendations(ai_analysis) ==
    IF TruthyText(ai_analysis, "recommendations") THEN ai_analysis.recommendations
    ELSE "No AI recommendations available"

\* what the scoring oracle can do: raise, answer without JSON, or answer with a JSON object
AiScores == {0, 20, 90, 150}
AiJsonObjects ==
    {[complexity_reasoning |-> "because"]}
    \cup {[complexity_score |-> sc] : sc \in AiScores}
    \cup {[complexity_score |-> sc, migration_effort |-> ef, recommendations |-> rc] :
             sc \in AiScores, ef \in {"", "2 weeks"}, rc \in {"", "Review the scripts"}}

AiOutcomes ==
    {[kind |-> "raise", data |-> NoFields], [kind |-> "no_json", data |-> NoFields]}
    \cup {[kind |-> "json", data |-> d] : d \in AiJsonObjects}

\* variant: the failure dict carries no score
AiFailed_NoScore(reason) ==
    [recommendations |-> "AI analysis failed: " \o reason,
     migration_effort |-> "Unknown"]

\* lines 689-697: the dict returned when anything in the try block raises
AiFailed(reason) ==
    [complexity_score |-> 50,
     recommendations |-> "AI analysis failed: " \o reason,
     migration_effort |-> "Unknown"]

\* analyze_proxy_with_ai. An answer without JSON reaches line 685, "response[:500]" on
\* the completion object, which raises, so that case ends in the handler of line 689 too.
analyze_proxy_with_ai(outcome) ==
    IF openai_client = None
    THEN [complexity_score |-> 50,
          recommendations |-> "AI analysis unavailable - API key not configured"]
    ELSE CASE outcome.kind = "json" -> outcome.data
           [] outcome.kind = "no_json" -> AiFailed("'ChatCompletion' object is not subscriptable")
           [] OTHER -> AiFailed("connection error")

\* lines 890-902
ProxyAnalysis(policies, ai_analysis) ==
    [complexity_score |-> FinalScore(policies, ai_analysis),
     complexity_level |-> ComplexityLevel(FinalScore(policies, ai_analysis)),
     policy_count |-> Len(policies),
     custom_policies |-> CustomPoliciesOf(policies),
     policy_mappings |-> PolicyMappingsOf(policies),
     migration_effort |-> MigrationEffort(FinalScore(policies, ai_analysis), ai_analysis),
     ai_recommendations |-> AiRecommendations(ai_analysis),
     status |-> "completed"]

NoAnalysis == [status |-> "none"]

\* POST /analyze-proxy/{proxy_id}, from the extracted policy list on (lines 831-907);
\* one request is followed from its inputs to the analysis it stores
analyze_proxy(policies, outcome) ==
    /\ an_result.status = "none"
    /\ an_policies' = policies
    /\ an_ai' = analyze_proxy_with_ai(outcome)
    /\ an_result' = ProxyAnalysis(policies, analyze_proxy_with_ai(outcome))
    /\ UNCHANGED <<openai_client, db_vars, task, response, upload>>

InitAnalyze ==
    /\ openai_client \in {None, "client"}
    /\ proxy_files = [x \in {} |-> None]
    /\ proxy_analyses = [x \in {} |-> None]
    /\ apigee_credentials = {}
    /\ migration_executions = [x \in {} |-> None]
    /\ task = [x \in {} |-> None]
    /\ response = 0
    /\ an_policies = <<>>
    /\ an_ai = NoFields
    /\ an_result = NoAnalysis
    /\ upload = NoUpload

NextAnalyze == \E policies \in PolicyLists, outcome \in AiOutcomes : analyze_proxy(policies, outcome)

SpecAnalyze == InitAnalyze /\ [][NextAnalyze]_vars

----------------------------------------------------------------------------
(* upload_proxy: single files and ZIP bundles *)

\* bound on the number of proxy file records stored in one behaviour
MaxUploads == 1

\* line 709: 100MB in bytes
max_file_size == 100 * 1024 * 1024

UpperCase == "ABCDEFGHIJKLMNOPQRSTUVWXYZ"
LowerCase == "abcdefghijklmnopqrstuvwxyz"

\* the lower-case letter of each upper-case letter
ToLower ==
    [c \in {SubSeq(UpperCase, i, i) : i \in 1..Len(UpperCase)} |->
        SubSeq(LowerCase, StrFind(UpperCase, c) + 1, StrFind(UpperCase, c) + 1)]

RECURSIVE Lower(_)
\* str.lower()
Lower(s) ==
    IF Len(s) = 0 THEN s
    ELSE (IF SubSeq(s, 1, 1) \in DOMAIN ToLower THEN ToLower[SubSeq(s, 1, 1)] ELSE SubSeq(s, 1, 1))
         \o (IF Len(s) = 1 THEN "" ELSE Lower(SubSeq(s, 2, Len(s))))

\* str.endswith(suffix)
EndsWith(s, suffix) ==
    Len(s) >= Len(suffix) /\ SubSeq(s, Len(s) - Len(suffix) + 1, Len(s)) = suffix

\* the sample texts uploads are made of
XmlText == "<APIProxy name='orders'/>"
XmlBroken == "<APIProxy name='orders'>"
JsonText == "{}"
JsonBroken == "{"
NestedContent == "<APIProxy name='nested'/>"
PolicyText == "<Quota name='Quota-1'/>"

\* the sample documents of the bundles that are analysed
RootWithPolicies ==
    "<APIProxy name='orders'><Policies><Policy>VerifyAPIKey</Policy><Policy>Quota</Policy></Policies></APIProxy>"
RootBroken == "<APIProxy name='orders'><Policies><Policy>VerifyAPIKey</Policy>"
ProxyEndpointText ==
    "<ProxyEndpoint name='default'><PreFlow><Request><Step><Name>Quota</Name></Step><Step><Name>JavaScript</Name></Step></Request></PreFlow></ProxyEndpoint>"
ProxyEndpointBroken == "<ProxyEndpoint name='default'><PreFlow><Request><Step><Name>JavaScript</Name></Step>"
TargetEndpointText ==
    "<TargetEndpoint name='backend'><PostFlow><Response><Step><Name>CustomThing</Name></Step></Response></PostFlow></TargetEndpoint>"
TargetEndpointBroken == "<TargetEndpoint name='backend'><PostFlow><Step><Name>CustomThing</Name>"

\* ET.fromstring(text) returns (does not raise ParseError), on the sample texts
XmlParses(text) ==
    text \in {EdgeContent, XmlText, NestedContent, PolicyText,
              RootWithPolicies, ProxyEndpointText, TargetEndpointText}

\* json.loads(text) returns (does not raise JSONDecodeError), on the sample texts
JsonParses(text) == text \in {JsonText}

\* ET.fromstring(text).tag for a text that parses: the name after the first "<"
RootTag(text) ==
    LET ends == {i \in 1..Len(text) : SubSeq(text, i, i) \in {" ", "/", ">"}}
        end == CHOOSE i \in ends : \A j \in ends : i <= j
    IN  SubSeq(text, 2, end - 1)

\* a file of an archive: whether it decodes as UTF-8, and its text if it does
TextFile(text) == [text |-> text, utf8 |-> TRUE]
BinaryFile == [text |-> "", utf8 |-> FALSE]

\* paths are sequences of path components, relative to the extraction directory
RootDescriptor == <<"apiproxy", "apiproxy.xml">>
NestedDescriptor == <<"edge", "apiproxy", "apiproxy.xml">>
PolicyDocument == <<"apiproxy", "policies", "Quota-1.xml">>
ResourceDocument == <<"apiproxy", "resources", "jsc", "sign.js">>
PoliciesDir == <<"apiproxy", "policies">>
ProxiesDir == <<"apiproxy", "proxies">>
TargetsDir == <<"apiproxy", "targets">>
ResourceDirs == {<<"apiproxy", "resources", "jsc">>,
                 <<"apiproxy", "resources", "py">>,
                 <<"apiproxy", "resources", "java">>}

EmptyArchive == [q \in {} |-> BinaryFile]

\* the archive that holds path with one of the files of the set (none if it is empty)
Placed(path, files) == [q \in {path : f \in files} |-> CHOOSE f \in files : TRUE]

\* the archives uploads are made of: path -> file
Archives ==
    {Placed(RootDescriptor, r) @@ Placed(NestedDescriptor, n) @@ Placed(PolicyDocument, d) :
        r \in {{}, {TextFile(EdgeContent)}, {TextFile("")}, {BinaryFile}},
        n \in {{}, {TextFile(NestedContent)}},
        d \in {{}, {TextFile(PolicyText)}}}
    \cup {Placed(PolicyDocument, {BinaryFile}),
          Placed(RootDescriptor, {TextFile(EdgeContent)})
              @@ Placed(ResourceDocument, {BinaryFile})}

\* the payload of an upload: its length, what content.decode('utf-8') gives, and
\* what zipfile.ZipFile finds in it (the bytes of an archive do not decode as text)
TextPayload(size, text) ==
    [text |-> text, utf8 |-> TRUE, size |-> size, zip |-> FALSE, archive |-> EmptyArchive]
BinaryPayload(size) ==
    [text |-> "", utf8 |-> FALSE, size |-> size, zip |-> FALSE, archive |-> EmptyArchive]
ZipPayload(size, archive) ==
    [text |-> "", utf8 |-> FALSE, size |-> size, zip |-> TRUE, archive |-> archive]

PayloadSizes == {max_file_size, max_file_size + 1}

Payloads ==
    {TextPayload(n, t) : n \in PayloadSizes, t \in {XmlText, XmlBroken, JsonText, JsonBroken}}
    \cup {BinaryPayload(n) : n \in PayloadSizes}
    \cup {ZipPayload(n, a) : n \in PayloadSizes, a \in Archives}

FileNames == {"orders.xml", "Orders.JSON", "bundle.zip", "notes.txt"}

\* the UploadFile values of the requests
UploadFiles == {[content |-> c, filename |-> f] : f \in FileNames, c \in Payloads}

\* what exists under the extraction directory: the files and the directories above them
Entries(archive) ==
    UNION {{SubSeq(q, 1, n) : n \in 1..Len(q)} : q \in DOMAIN archive}

IsDir(archive, path) == path \in Entries(archive) \ DOMAIN archive

\* temp_path.rglob(name)
RGlob(archive, name) == {q \in Entries(archive) : q[Len(q)] = name}

\* dir.glob("*" + suffix)
Glob(archive, dir, suffix) ==
    {q \in Entries(archive) :
        /\ Len(q) = Len(dir) + 1
        /\ SubSeq(q, 1, Len(dir)) = dir
        /\ EndsWith(q[Len(q)], suffix)}

\* Path.stem
Stem(name) == IF StrRFind(name, ".") > 0 THEN SubSeq(name, 1, StrRFind(name, ".")) ELSE name

\* variant: the recursive search is preferred to the fixed path
ApiproxyPaths_SearchFirst(archive) ==
    IF RGlob(archive, "apiproxy.xml") \ {RootDescriptor} # {}
    THEN RGlob(archive, "apiproxy.xml") \ {RootDescriptor}
    ELSE {RootDescriptor}

\* lines 213-218: the values apiproxy_path can end with (rglob yields in directory order)
ApiproxyPaths(archive) ==
    IF RootDescriptor \in Entries(archive) THEN {RootDescriptor}
    ELSE IF RGlob(archive, "apiproxy.xml") # {} THEN RGlob(archive, "apiproxy.xml")
    ELSE {RootDescriptor}

\* lines 225-231: the values policies_dir can end with
PoliciesDirs(archive) ==
    IF PoliciesDir \in Entries(archive) THEN {PoliciesDir}
    ELSE IF {q \in RGlob(archive, "policies") : IsDir(archive, q)} # {}
         THEN {q \in RGlob(archive, "policies") : IsDir(archive, q)}
    ELSE {PoliciesDir}

\* the documents opened with encoding='utf-8' outside any try block
DocumentsRead(archive, apiproxy_path, policies_dir) ==
    (IF apiproxy_path \in Entries(archive) THEN {apiproxy_path} ELSE {})
    \cup Glob(archive, policies_dir, ".xml")
    \cup Glob(archive, ProxiesDir, ".xml")
    \cup Glob(archive, TargetsDir, ".xml")

\* open(path, 'r', encoding='utf-8').read() returns
Reads(archive, path) == path \in DOMAIN archive /\ archive[path].utf8

\* the stem -> content map built from dir.glob("*.xml")
DocumentsOf(archive, dir) ==
    [name \in {Stem(q[Len(q)]) : q \in Glob(archive, dir, ".xml")} |->
        archive[CHOOSE q \in Glob(archive, dir, ".xml") : Stem(q[Len(q)]) = name].text]

\* lines 240-246: the policy type of one policy document
PolicyTypeOf(content, policy_name) == IF XmlParses(content) THEN RootTag(content) ELSE policy_name

\* lines 249-262: the resource files, keyed by relative path; binary ones by a marker
ResourcesOf(archive) ==
    [q \in {r \in DOMAIN archive :
               \E d \in ResourceDirs : Len(r) > Len(d) /\ SubSeq(r, 1, Len(d)) = d} |->
        IF archive[q].utf8 THEN archive[q].text ELSE "[Binary File]"]

\* extract_and_parse_zip_bundle. The lists extracted_policies and bundle_structure are
\* kept as sets: their order is the order the directory listing yields.
extract_and_parse_zip_bundle(zip_content, apiproxy_path, policies_dir) ==
    LET archive == zip_content.archive
    IN  IF ~zip_content.zip THEN [error |-> "File is not a zip file"]
        ELSE IF \E q \in DocumentsRead(archive, apiproxy_path, policies_dir) : ~Reads(archive, q)
        THEN [error |-> "'utf-8' codec can't decode byte"]
        ELSE [policies |-> DocumentsOf(archive, policies_dir),
              main_config |->
                 IF apiproxy_path \in Entries(archive) THEN archive[apiproxy_path].text ELSE None,
              resources |-> ResourcesOf(archive),
              proxies |-> DocumentsOf(archive, ProxiesDir),
              targets |-> DocumentsOf(archive, TargetsDir),
              extracted_policies |->
                 {PolicyTypeOf(archive[q].text, Stem(q[Len(q)])) :
                     q \in Glob(archive, policies_dir, ".xml")},
              bundle_structure |-> DOMAIN archive]

\* lines 735-744: the dict json.dumps writes into ProxyFile.content
ZipBundleContent(bundle_info) ==
    [policies |-> bundle_info.policies,
     main_config |-> bundle_info.main_config,
     resources |-> bundle_info.resources,
     proxies |-> bundle_info.proxies,
     targets |-> bundle_info.targets,
     extracted_policies |-> bundle_info.extracted_policies,
     bundle_structure |-> bundle_info.bundle_structure,
     type |-> "zip_bundle"]

\* ProxyFile(...).model_dump()
ProxyFile(id, filename, content, file_type) ==
    [id |-> id, content |-> content, file_type |-> file_type, filename |-> filename,
     uploaded_at |-> Now]

\* raise HTTPException(status_code, detail): nothing is stored
Rejected(status_code, detail, bundle_info) ==
    [content |-> "", status |-> status_code, file_type |-> "",
     bundle_info |-> bundle_info, detail |-> detail, stores |-> FALSE]

\* insert_one(ProxyFile(...)) and the 200 response
Accepted(message, content, file_type, bundle_info) ==
    [content |-> content, status |-> 200, file_type |-> file_type,
     bundle_info |-> bundle_info, detail |-> message, stores |-> TRUE]

\* lines 718-750
ZipOutcome(bundle_info) ==
    IF "error" \in DOMAIN bundle_info
    THEN Rejected(400, "Invalid ZIP bundle: " \o bundle_info.error, bundle_info)
    ELSE IF bundle_info.main_config \in {None, ""}
    THEN Rejected(400, "ZIP bundle must contain apiproxy.xml file", bundle_info)
    ELSE Accepted("ZIP proxy bundle uploaded and extracted successfully",
                  ZipBundleContent(bundle_info), "zip", bundle_info)

\* variant: XML content is stored without being parsed
SingleFileOutcome_NoXmlCheck(content, file_type) ==
    IF ~content.utf8 THEN Rejected(400, "File must be valid UTF-8 encoded text", NoFields)
    ELSE IF file_type = "json" /\ ~JsonParses(content.text)
    THEN Rejected(400, "Invalid JSON format", NoFields)
    ELSE Accepted("Proxy file uploaded successfully", content.text, file_type, NoFields)

\* variant: the record is inserted before the content is validated
SingleFileOutcome_StoreFirst(content, file_type) ==
    IF ~content.utf8 THEN Rejected(400, "File must be valid UTF-8 encoded text", NoFields)
    ELSE IF file_type = "xml" /\ ~XmlParses(content.text)
    THEN [Accepted("Invalid XML format", content.text, file_type, NoFields) EXCEPT !.status = 400]
    ELSE IF file_type = "json" /\ ~JsonParses(content.text)
    THEN [Accepted("Invalid JSON format", content.text, file_type, NoFields) EXCEPT !.status = 400]
    ELSE Accepted("Proxy file uploaded successfully", content.text, file_type, NoFields)

\* lines 753-785
SingleFileOutcome(content, file_type) ==
    IF ~content.utf8 THEN Rejected(400, "File must be valid UTF-8 encoded text", NoFields)
    ELSE IF file_type = "xml" /\ ~XmlParses(content.text)
    THEN Rejected(400, "Invalid XML format", NoFields)
    ELSE IF file_type = "json" /\ ~JsonParses(content.text)
    THEN Rejected(400, "Invalid JSON format", NoFields)
    ELSE Accepted("Proxy file uploaded successfully", content.text, file_type, NoFields)

\* the format the extension of the lower-cased file name declares (lines 718, 753, 760),
\* "" if it is not a supported one
DeclaredType(filename_lower) ==
    IF EndsWith(filename_lower, ".zip") THEN "zip"
    ELSE IF EndsWith(filename_lower, ".xml") THEN "xml"
    ELSE IF EndsWith(filename_lower, ".json") THEN "json"
    ELSE ""

\* the body of upload_proxy, lines 707-788
UploadOutcome(file, filename_lower, apiproxy_path, policies_dir) ==
    IF file.content.size > max_file_size
    THEN Rejected(413, "File size exceeds 100MB limit", NoFields)
    ELSE IF DeclaredType(filename_lower) = "zip"
    THEN ZipOutcome(extract_and_parse_zip_bundle(file.content, apiproxy_path, policies_dir))
    ELSE IF DeclaredType(filename_lower) \in {"xml", "json"}
    THEN SingleFileOutcome(file.content, DeclaredType(filename_lower))
    ELSE Rejected(400, "Unsupported file format. Please upload XML, JSON, or ZIP files only.",
                  NoFields)

\* str(uuid.uuid4()): an id no stored proxy file has
NewProxyId == "u" \o ToString(Cardinality(DOMAIN proxy_files) + 1)

\* POST /upload-proxy
upload_proxy(file) ==
    \E filename_lower \in {Lower(file.filename)},
       apiproxy_path \in ApiproxyPaths(file.content.archive),
       policies_dir \in PoliciesDirs(file.content.archive) :
        \E out \in {UploadOutcome(file, filename_lower, apiproxy_path, policies_dir)} :
            /\ out.stores => Cardinality(DOMAIN proxy_files) < MaxUploads
            /\ proxy_files' =
                  IF out.stores
                  THEN proxy_files @@
                       (NewProxyId :> ProxyFile(NewProxyId, file.filename, out.content, out.file_type))
                  ELSE proxy_files
            /\ response' = out.status
            /\ upload' = [proxy_id |-> IF out.stores THEN NewProxyId ELSE None,
                          state |-> "handled",
                          bundle_info |-> out.bundle_info,
                          detail |-> out.detail,
                          file |-> file]
            /\ UNCHANGED <<openai_client, proxy_analyses, apigee_credentials,
                           migration_executions, task, an_vars>>

InitUpload ==
    /\ openai_client = None
    /\ proxy_files = [x \in {} |-> None]
    /\ proxy_analyses = [x \in {} |-> None]
    /\ apigee_credentials = {}
    /\ migration_executions = [x \in {} |-> None]
    /\ task = [x \in {} |-> None]
    /\ response = 0
    /\ AnalyzeIdle
    /\ upload = NoUpload

NextUpload == \E file \in UploadFiles : upload_proxy(file)

SpecUpload == InitUpload /\ [][NextUpload]_vars

----------------------------------------------------------------------------
(* analyze_proxy of a stored proxy file: policy extraction *)

\* the texts of the <tag>...</tag> elements of a document that parses (the sample
\* documents nest no element in one of the same tag, and hold no white space)
ElementTexts(text, tag) ==
    LET open == "<" \o tag \o ">"
        close == "</" \o tag \o ">"
        closes == Occurrences(text, close)
    IN  {SubSeq(text, o + Len(open) + 1,
                CHOOSE c \in closes : c >= o /\ \A d \in closes : d >= o => c <= d) :
            o \in Occurrences(text, open)}

\* variant: a document that does not parse leaves an error entry in the result
extract_policies_from_xml_Strict(xml_content) ==
    IF XmlParses(xml_content)
    THEN (ElementTexts(xml_content, "Policy") \cup ElementTexts(xml_content, "Name")) \ {""}
    ELSE {"ParseError"}

\* extract_policies_from_xml: the Policy entries of the Policies section and the
\* Name of every Step (in the sample documents every Name belongs to a Step);
\* ParseError gives []. The result of list(set(...)) is kept as a set.
extract_policies_from_xml(xml_content) ==
    IF XmlParses(xml_content)
    THEN (ElementTexts(xml_content, "Policy") \cup ElementTexts(xml_content, "Name")) \ {""}
    ELSE {}

\* root.get('name', 'Unknown'): the name attribute of the root element
NameAttribute(text) ==
    LET head == SubSeq(text, 1, StrFind(text, ">"))
        at == StrFind(head, " name='")
        rest == SubSeq(head, at + 8, Len(head))
    IN  IF at = -1 THEN "Unknown" ELSE SubSeq(rest, 1, StrFind(rest, "'"))

\* the name attributes of the TargetEndpoint elements below the root
TargetServers(text) ==
    LET open == "<TargetEndpoint name='"
    IN  {LET rest == SubSeq(text, o + Len(open) + 1, Len(text))
         IN  SubSeq(rest, 1, StrFind(rest, "'")) : o \in Occurrences(text, open) \ {0}}

DefaultProxyInfo ==
    [name |-> "Unknown", base_paths |-> {}, target_servers |-> {}, resources |-> <<>>]

\* extract_proxy_info
extract_proxy_info(xml_content) ==
    IF XmlParses(xml_content)
    THEN [name |-> NameAttribute(xml_content),
          base_paths |-> ElementTexts(xml_content, "VirtualHost"),
          target_servers |-> TargetServers(xml_content) \ {""},
          resources |-> <<>>]
    ELSE DefaultProxyInfo

\* bundle_info.get("main_config") is truthy
HasMainConfig(bundle_info) ==
    "main_config" \in DOMAIN bundle_info /\ bundle_info.main_config \notin {None, ""}

\* extract_policies_from_bundle
extract_policies_from_bundle(bundle_info) ==
    (IF HasMainConfig(bundle_info) THEN extract_policies_from_xml(bundle_info.main_config) ELSE {})
    \cup UNION {extract_policies_from_xml(bundle_info.proxies[n]) : n \in DOMAIN bundle_info.proxies}
    \cup UNION {extract_policies_from_xml(bundle_info.targets[n]) : n \in DOMAIN bundle_info.targets}
    \cup bundle_info.extracted_policies

\* lines 805-829: proxy_info of a stored proxy file
ProxyInfoOf(proxy_file) ==
    IF proxy_file.file_type = "zip"
    THEN IF HasMainConfig(proxy_file.content)
         THEN extract_proxy_info(proxy_file.content.main_config)
         ELSE DefaultProxyInfo
    ELSE extract_proxy_info(proxy_file.content)

\* lines 805-829: policies of a stored proxy file
PoliciesOf(proxy_file) ==
    IF proxy_file.file_type = "zip"
    THEN extract_policies_from_bundle(proxy_file.content)
    ELSE extract_policies_from_xml(proxy_file.content)

\* the bundles that are uploaded and then analysed
ProxyEndpointDocument == <<"apiproxy", "proxies", "default.xml">>
TargetEndpointDocument == <<"apiproxy", "targets", "backend.xml">>

EndpointArchives ==
    {Placed(RootDescriptor, {TextFile(r)}) @@ Placed(ProxyEndpointDocument, e)
        @@ Placed(TargetEndpointDocument, t) @@ Placed(PolicyDocument, d) :
        r \in {EdgeContent, RootWithPolicies, RootBroken},
        e \in {{}, {TextFile(ProxyEndpointText)}, {TextFile(ProxyEndpointBroken)}},
        t \in {{}, {TextFile(TargetEndpointText)}, {TextFile(TargetEndpointBroken)}},
        d \in {{}, {TextFile(PolicyText)}}}

AnalysedUploads ==
    {[content |-> ZipPayload(max_file_size, a), filename |-> "bundle.zip"] : a \in EndpointArchives}
    \cup {[content |-> TextPayload(max_file_size, RootWithPolicies), filename |-> "orders.xml"],
          [content |-> TextPayload(max_file_size, XmlText), filename |-> "orders.xml"],
          [content |-> TextPayload(max_file_size, JsonText), filename |-> "Orders.JSON"]}

\* proxy_files holds the record upload_proxy stores for the upload of file
StoredFrom(file) ==
    \E apiproxy_path \in ApiproxyPaths(file.content.archive),
       policies_dir \in PoliciesDirs(file.content.archive) :
        \E out \in {UploadOutcome(file, Lower(file.filename), apiproxy_path, policies_dir)} :
            /\ out.stores
            /\ proxy_files = ("p1" :> ProxyFile("p1", file.filename, out.content, out.file_type))

\* the answers of the scoring oracle while stored files are analysed
StoredAiOutcomes ==
    {o \in AiOutcomes : o.kind = "json" => DOMAIN o.data = {"complexity_score"}}

\* the fields of ProxyAnalysis taken from proxy_info (lines 890-892, 898)
AnalysisIdentity(proxy_id, proxy_info) ==
    [proxy_id |-> proxy_id, proxy_name |-> proxy_info.name,
     dependencies |-> proxy_info.target_servers]

\* POST /analyze-proxy/{proxy_id}, the whole handler. The HTTPException(404) of
\* line 803 is raised inside the try block, so the handler of line 909 turns it
\* into a 500. list(set(...)) yields the policies in any order.
analyze_stored_proxy(proxy_id, outcome) ==
    /\ an_result.status = "none"
    /\ response = 0
    /\ IF proxy_id \notin DOMAIN proxy_files
       THEN /\ response' = 500
            /\ UNCHANGED <<an_vars, proxy_analyses>>
       ELSE \E policies \in ListsOfSet(PoliciesOf(proxy_files[proxy_id])),
               ai_analysis \in {analyze_proxy_with_ai(outcome)},
               proxy_info \in {ProxyInfoOf(proxy_files[proxy_id])} :
               \E analysis \in {AnalysisIdentity(proxy_id, proxy_info)
                                    @@ ProxyAnalysis(policies, ai_analysis)} :
                   /\ an_policies' = policies
                   /\ an_ai' = ai_analysis
                   /\ an_result' = analysis
                   /\ proxy_analyses' = proxy_analyses @@ ("a1" :> analysis)
                   /\ response' = 200
    /\ UNCHANGED <<openai_client, proxy_files, apigee_credentials, migration_executions,
                   task, upload>>

InitExtract ==
    /\ openai_client \in {None, "client"}
    /\ \E file \in AnalysedUploads : StoredFrom(file)
    /\ proxy_analyses = [x \in {} |-> None]
    /\ apigee_credentials = {}
    /\ migration_executions = [x \in {} |-> None]
    /\ task = [x \in {} |-> None]
    /\ response = 0
    /\ AnalyzeIdle
    /\ upload = NoUpload

NextExtract ==
    \E proxy_id \in {"p1", "p9"}, outcome \in StoredAiOutcomes :
        analyze_stored_proxy(proxy_id, outcome)

SpecExtract == InitExtract /\ [][NextExtract]_vars

----------------------------------------------------------------------------
(* Reading the state *)

Exec(id) == migration_executions[id]
Stored == DOMAIN migration_executions

\* the background task of the execution has returned
TaskDone(id) == TaskAt(id, "done")

\* nothing has failed and no cancel has been accepted: error_message is written by
\* every failure path and by every accepted cancel, and nothing resets it
CleanRun(id) == Exec(id).error_message = None

----------------------------------------------------------------------------
(* C1 *)

C1_Checkpoints == <<0, 10, 25, 50, 70, 85, 100>>

C1_WriteInOrder ==
    \A id \in Stored :
        Exec(id).progress' # Exec(id).progress =>
            \E i \in 1..(Len(C1_Checkpoints) - 1) :
                /\ Exec(id).progress = C1_Checkpoints[i]
                /\ Exec(id).progress' = C1_Checkpoints[i + 1]

C1_EndsAtHundred ==
    \A id \in Stored : (TaskDone(id) /\ CleanRun(id)) => Exec(id).progress = 100

\* C1: every write that changes progress moves it from one checkpoint of
\* 0, 10, 25, 50, 70, 85, 100 to the next one (so it never decreases and skips
\* none), and a run that ends with no failure and no accepted cancel ends at 100:
\* its progress values were exactly 10, 25, 50, 70, 85, 100 in that order.
C1_ProgressSequence == [][C1_WriteInOrder]_vars /\ []C1_EndsAtHundred

\* a successful, uncancelled run has finished
C1_Witness ==
    \E id \in Stored : TaskDone(id) /\ CleanRun(id) /\ Exec(id).progress = 100

----------------------------------------------------------------------------
(* C2 *)

C2_AcceptedCancel ==
    \A id \in ExecIds \cup {UnknownExecId} :
        ( /\ cancel_migration(id)
          /\ id \in Stored
          /\ Exec(id).status \in {"pending", "preparing", "converting", "validating"} )
        => /\ response' = 200
           /\ Exec(id).status' = "failed"
           /\ Exec(id).error_message' = "Migration cancelled by user"
           /\ Exec(id).completed_at' # None

\* C2: a cancel applied to a record whose status is pending, preparing, converting
\* or validating is accepted (200), and the record right after it has status
\* failed, the fixed cancellation message and completed_at set, wherever the
\* pipeline task is at that moment.
C2_CancelAccepted == [][C2_AcceptedCancel]_vars

\* a cancel was accepted while the deployment step was running
C2_Witness ==
    \E id \in Stored :
        /\ TaskAt(id, "step_run") /\ task[id].step = NumSteps
        /\ Exec(id).status = "failed"
        /\ Exec(id).error_message = "Migration cancelled by user"
        /\ Exec(id).completed_at # None
        /\ response = 200

----------------------------------------------------------------------------
(* C3 *)

C3_RejectedCancel ==
    \A id \in ExecIds \cup {UnknownExecId} :
        ( /\ cancel_migration(id)
          /\ (id \notin Stored \/ Exec(id).status \in {"completed", "failed"}) )
        => /\ response' = 404
           /\ migration_executions' = migration_executions

\* C3: a cancel applied to a completed or failed execution, or to an id with no
\* record, is answered with an error (404) and changes no execution record.
C3_CancelRejected == [][C3_RejectedCancel]_vars

\* a cancel was rejected and a completed execution is intact
C3_Witness ==
    \E id \in Stored :
        /\ Exec(id).status = "completed"
        /\ Exec(id).error_message = None
        /\ response = 404

----------------------------------------------------------------------------
(* C4 *)

C4_Terminal(id) == Exec(id).status \in {"completed", "failed"}

\* C4 as stated: once the status is completed or failed, nothing changes the record
C4_TerminalIsFinal ==
    [][\A id \in Stored : C4_Terminal(id) => Exec(id)' = Exec(id)]_vars

\* C4 amended: once the status is completed, or is failed and the background task
\* of the execution has returned, nothing changes the record (while the task is
\* still running after an accepted cancel, its later writes do change it).
C4_FinishedIsFinal ==
    [][\A id \in Stored :
          (C4_Terminal(id) /\ (Exec(id).status = "completed" \/ TaskDone(id)))
          => Exec(id)' = Exec(id)]_vars

\* a failed execution whose task has returned, and a cancel that was rejected
C4_Witness ==
    \E id \in Stored :
        /\ Exec(id).status = "failed"
        /\ Exec(id).steps_failed # <<>>
        /\ TaskDone(id)
        /\ response = 404

----------------------------------------------------------------------------
(* C5 *)

C5_StatusOrder ==
    <<"pending", "preparing", "converting", "validating", "deploying", "completed">>

C5_NextInOrder(a, b) ==
    \E i \in 1..(Len(C5_StatusOrder) - 1) : a = C5_StatusOrder[i] /\ b = C5_StatusOrder[i + 1]

\* C5 as stated: while nothing has failed and no cancel was accepted, every change
\* of the stored status goes from one status of pending, preparing, converting,
\* validating, deploying, completed to the next one (so deploying is stored before
\* completed, and completed is not entered from validating), and such a run ends
\* with status completed.
C5_StatusSequence ==
    /\ [][\A id \in Stored :
            (CleanRun(id)' /\ Exec(id).status' # Exec(id).status)
            => C5_NextInOrder(Exec(id).status, Exec(id).status')]_vars
    /\ [](\A id \in Stored : (TaskDone(id) /\ CleanRun(id)) => Exec(id).status = "completed")

----------------------------------------------------------------------------
(* C6 *)

C6_Missing == {"Analysis not found", "Proxy file not found"}

C6_ReadFindsNothing(id) ==
    \/ /\ TaskAt(id, "find_analysis")
       /\ Exec(id).proxy_analysis_id \notin DOMAIN proxy_analyses
       /\ pm_find_analysis(id)
    \/ /\ TaskAt(id, "find_proxy_file")
       /\ task[id].analysis.proxy_id \notin DOMAIN proxy_files
       /\ pm_find_proxy_file(id)

C6_NeverStarted(id) ==
    /\ Exec(id).status = "failed"
    /\ Exec(id).error_message \in C6_Missing
    /\ Exec(id).progress = 0
    /\ Exec(id).started_at = None
    /\ Exec(id).migration_log = <<>>
    /\ Exec(id).steps_completed = <<>>
    /\ Exec(id).steps_failed = <<>>
    /\ TaskDone(id)

\* C6: when the task finds no analysis, or no proxy file, the record goes to
\* status failed with the message naming the missing record, and from then on it
\* stays failed with progress 0, started_at unset and empty log and step lists,
\* the task having returned: the execution is never preparing.
C6_MissingRecord ==
    /\ [][\A id \in Stored : C6_ReadFindsNothing(id) => C6_NeverStarted(id)']_vars
    /\ [](\A id \in Stored : Exec(id).error_message \in C6_Missing => C6_NeverStarted(id))

\* an execution that failed on a missing proxy file
C6_Witness ==
    \E id \in Stored :
        Exec(id).error_message = "Proxy file not found" /\ C6_NeverStarted(id)

----------------------------------------------------------------------------
(* C7 *)

\* C7 as stated: an execution that failed because a stored policy_mappings entry
\* could not be built into a PolicyMapping ends with status failed, steps_failed
\* exactly the generation step, and apigee_x_bundle unset.
C7_MappingFailureRecorded ==
    \A id \in Stored :
        (TaskDone(id) /\ Exec(id).error_message = MappingError)
        => /\ Exec(id).status = "failed"
           /\ Exec(id).steps_failed = <<"Generating Apigee X bundle with AI">>
           /\ Exec(id).apigee_x_bundle = None

----------------------------------------------------------------------------
(* C8 *)

C8_GenerationReturned(id) ==
    /\ id \in DOMAIN task
    /\ \/ task[id].step = GenerateStep /\ task[id].pc = "checkpoint"
       \/ task[id].step > GenerateStep

C8_OracleGaveNothing(id) == task[id].apigee_x_bundle = task[id].proxy_file.content

\* C8: with no oracle, or an oracle call that raises, convert_edge_to_apigee_x
\* returns the original proxy content; the generation step is then recorded as
\* completed and not as failed, the task goes on to the checkpoint (never to the
\* failure handler), and from the checkpoint on the record holds that original
\* content as apigee_x_bundle with progress at least 70.
C8_OracleFailureDegrades ==
    /\ \A o \in OracleOutcomes :
          (openai_client = None \/ o.kind = "raise")
          => convert_edge_to_apigee_x(EdgeContent, <<GoodMapping>>, o) = EdgeContent
    /\ \A id \in Stored :
          /\ (C8_GenerationReturned(id) /\ openai_client = None) => C8_OracleGaveNothing(id)
          /\ (C8_GenerationReturned(id) /\ C8_OracleGaveNothing(id))
             => /\ \E i \in 1..Len(Exec(id).steps_completed) :
                      Exec(id).steps_completed[i] = "Generating Apigee X bundle with AI"
                /\ \A i \in 1..Len(Exec(id).steps_failed) :
                      Exec(id).steps_failed[i] # "Generating Apigee X bundle with AI"
                /\ task[id].step > GenerateStep
                   => /\ Exec(id).apigee_x_bundle = task[id].proxy_file.content
                      /\ Exec(id).progress >= 70

\* without an oracle the pipeline has reached the deployment step with the original
\* content as its bundle
C8_Witness ==
    \E id \in Stored :
        /\ openai_client = None
        /\ TaskAt(id, "step_run") /\ task[id].step = NumSteps
        /\ Exec(id).apigee_x_bundle = EdgeContent
        /\ Exec(id).progress = 85

----------------------------------------------------------------------------
(* C9 *)

\* C9 as stated: start_migration with an analysis id or a credentials id that
\* matches no stored record answers with a not-found error, creates no execution
\* record and schedules no task.
C9_UnknownIdsRejected ==
    [][\A ids \in RequestIdLists, c \in CredIds :
          ( /\ start_migration(ids, c)
            /\ \/ c \notin apigee_credentials
               \/ \E i \in 1..Len(ids) : ids[i] \notin DOMAIN proxy_analyses )
          => /\ response' = 404
             /\ migration_executions' = migration_executions
             /\ task' = task]_vars

----------------------------------------------------------------------------
(* C10 *)

C10_PolicySet == {an_policies[i] : i \in 1..Len(an_policies)}

C10_Analysed == an_result.status = "completed"

\* C10: the analysis of a deduplicated policy list has policy_count equal to the
\* number of policy_mappings, every policy of the list is the edge_policy of
\* exactly one mapping, no mapping is for a policy outside the list, and
\* custom_policies holds, once each, exactly the policies POLICY_MAPPINGS lacks.
C10_OneMappingPerPolicy ==
    C10_Analysed =>
        /\ an_result.policy_count = Len(an_result.policy_mappings)
        /\ an_result.policy_count = Cardinality(C10_PolicySet)
        /\ \A q \in C10_PolicySet :
              Cardinality({i \in 1..Len(an_result.policy_mappings) :
                              an_result.policy_mappings[i].edge_policy = q}) = 1
        /\ \A i \in 1..Len(an_result.policy_mappings) :
              an_result.policy_mappings[i].edge_policy \in C10_PolicySet
        /\ {an_result.custom_policies[i] : i \in 1..Len(an_result.custom_policies)}
              = {q \in C10_PolicySet : q \notin DOMAIN POLICY_MAPPINGS}
        /\ \A i, j \in 1..Len(an_result.custom_policies) :
              an_result.custom_policies[i] = an_result.custom_policies[j] => i = j

\* an analysis of three policies, two of them not in the table
C10_Witness ==
    /\ C10_Analysed
    /\ an_result.policy_count = 3
    /\ Len(an_result.custom_policies) = 2
    /\ Len(an_result.policy_mappings) = 3

----------------------------------------------------------------------------
(* C11 *)

\* C11: for every policy set and every response of the scoring oracle, the
\* complexity_score of the analysis lies in the closed range 0 to 100
C11_ScoreInRange ==
    C10_Analysed =>
        /\ ~FracLess(an_result.complexity_score, Frac(0, 1))
        /\ ~FracLess(Frac(100, 1), an_result.complexity_score)

----------------------------------------------------------------------------
(* C12 *)

C12_Unavailable == "AI analysis unavailable"
C12_FailedPrefix == "AI analysis failed: "

\* the text begins with prefix
C12_StartsWith(text, prefix) ==
    Len(text) >= Len(prefix) /\ SubSeq(text, 1, Len(prefix)) = prefix

\* analyze_proxy has run, and the oracle was unavailable or its call failed
C12_OracleFellBack ==
    /\ C10_Analysed
    /\ \/ openai_client = None
       \/ an_ai \in {AiFailed("connection error"),
                     AiFailed("'ChatCompletion' object is not subscriptable")}

C12_MarkerPresent ==
    \/ C12_StartsWith(an_result.ai_recommendations, C12_Unavailable)
    \/ C12_StartsWith(an_result.ai_recommendations, C12_FailedPrefix)

----------------------------------------------------------------------------
(* C13 *)

\* the level the thresholds give for the score num / den
C13_LevelOf(score) ==
    IF score[1] < 30 * score[2] THEN "simple"
    ELSE IF score[1] < 70 * score[2] THEN "moderate"
    ELSE "complex"

C13_EffortOf(level) ==
    CASE level = "simple" -> "1-2 hours"
      [] level = "moderate" -> "4-8 hours"
      [] level = "complex" -> "1-3 days"

C13_OracleEffortGiven == "migration_effort" \in DOMAIN an_ai /\ an_ai.migration_effort # ""

\* C13: complexity_level is simple below 30, moderate from 30 up to but excluding
\* 70, complex from 70 on; migration_effort is the oracle's estimate when that is
\* present and non-empty, and otherwise 1-2 hours, 4-8 hours, 1-3 days by level
C13_LevelAndEffort ==
    C10_Analysed =>
        /\ an_result.complexity_level = C13_LevelOf(an_result.complexity_score)
        /\ an_result.migration_effort =
              IF C13_OracleEffortGiven THEN an_ai.migration_effort
              ELSE C13_EffortOf(an_result.complexity_level)

\* a score of exactly 70 (base 50, oracle 90), with no estimate from the oracle
C13_Witness ==
    /\ C10_Analysed
    /\ FracEq(an_result.complexity_score, Frac(70, 1))
    /\ an_result.complexity_level = "complex"
    /\ ~C13_OracleEffortGiven
    /\ an_result.migration_effort = "1-3 days"

----------------------------------------------------------------------------
(* C14 *)

\* the last request handled was a single-file upload: its name declares XML or JSON
C14_SingleFile ==
    upload.state = "handled" /\ DeclaredType(Lower(upload.file.filename)) \in {"xml", "json"}

\* its payload is text that is well-formed in the declared format
C14_WellFormed ==
    /\ upload.file.content.utf8
    /\ IF DeclaredType(Lower(upload.file.filename)) = "xml"
       THEN XmlParses(upload.file.content.text)
       ELSE JsonParses(upload.file.content.text)

C14_WithinLimit == upload.file.content.size <= max_file_size

\* the upload succeeded and the stored record holds the uploaded text and nothing else
C14_StoredAsUploaded ==
    /\ response = 200
    /\ upload.proxy_id \in DOMAIN proxy_files
    /\ proxy_files[upload.proxy_id].file_type = DeclaredType(Lower(upload.file.filename))
    /\ proxy_files[upload.proxy_id].content = upload.file.content.text
    /\ DOMAIN proxy_files[upload.proxy_id] = {"id", "filename", "content", "file_type", "uploaded_at"}

\* the upload was rejected as badly formed: HTTP 400 for the encoding or the format
C14_InvalidFormat ==
    /\ response = 400
    /\ upload.detail \in {"Invalid XML format", "Invalid JSON format",
                          "File must be valid UTF-8 encoded text"}
    /\ upload.proxy_id = None

\* C14 as stated: every well-formed XML or JSON single-file upload succeeds and is
\* stored as uploaded, and one that is not well-formed is rejected as invalid
C14_SingleFileStoredAsUploaded ==
    C14_SingleFile => IF C14_WellFormed THEN C14_StoredAsUploaded ELSE C14_InvalidFormat

\* C14 amended: a single-file upload within the 100MB limit succeeds and is stored as
\* uploaded if it is well-formed UTF-8 text of its declared format, and is rejected
\* with HTTP 400 (encoding or format) if it is not; above the limit every upload,
\* well-formed or not, is rejected with HTTP 413 and nothing is stored
C14_SingleFileWithinLimit ==
    C14_SingleFile =>
        IF ~C14_WithinLimit THEN response = 413 /\ upload.proxy_id = None
        ELSE IF C14_WellFormed THEN C14_StoredAsUploaded
        ELSE C14_InvalidFormat

\* a well-formed JSON file, named in upper case, has been stored
C14_Witness ==
    /\ C14_SingleFile
    /\ upload.file.filename = "Orders.JSON"
    /\ C14_WithinLimit
    /\ C14_WellFormed
    /\ C14_StoredAsUploaded

----------------------------------------------------------------------------
(* C15 *)

\* the last request handled was the upload of a readable archive
C15_Archive ==
    /\ upload.state = "handled"
    /\ DeclaredType(Lower(upload.file.filename)) = "zip"
    /\ upload.file.content.zip

C15_Files == upload.file.content.archive

\* a file named apiproxy.xml exists somewhere in the archive
C15_DescriptorFound == RGlob(C15_Files, "apiproxy.xml") # {}

\* the archive was extracted and every document in it could be read
C15_Parsed == "main_config" \in DOMAIN upload.bundle_info

\* fixed path first, recursive search only if nothing is there; no descriptor, no
\* main_config and HTTP 400 naming apiproxy.xml
C15_Lookup ==
    /\ C15_Parsed =>
          /\ upload.bundle_info.main_config # None <=> C15_DescriptorFound
          /\ RootDescriptor \in DOMAIN C15_Files =>
                upload.bundle_info.main_config = C15_Files[RootDescriptor].text
          /\ (C15_DescriptorFound /\ RootDescriptor \notin DOMAIN C15_Files) =>
                \E q \in RGlob(C15_Files, "apiproxy.xml") :
                    upload.bundle_info.main_config = C15_Files[q].text
    /\ ~C15_DescriptorFound =>
          /\ response = 400
          /\ upload.detail = "ZIP bundle must contain apiproxy.xml file"
          /\ upload.proxy_id = None

C15_XmlDecodes ==
    \A q \in DOMAIN C15_Files : EndsWith(q[Len(q)], ".xml") => C15_Files[q].utf8

----------------------------------------------------------------------------
(* C16 *)

\* C16: an upload_proxy call that ends in an error stores no proxy file record and
\* returns no proxy id
C16_ErrorStoresNothing ==
    [][(upload'.state = "handled" /\ response' # 200)
        => (proxy_files' = proxy_files /\ upload'.proxy_id = None)]_vars

\* an archive without descriptor was rejected while an earlier upload is stored
C16_Witness ==
    /\ DOMAIN proxy_files # {}
    /\ C15_Archive
    /\ ~C15_DescriptorFound
    /\ response = 400

----------------------------------------------------------------------------
(* C17 *)

\* C17: in every reachable state of an execution record, a non-empty steps_failed
\* implies that the status is failed
C17_FailedStepsImplyFailed ==
    \A id \in Stored : Exec(id).steps_failed # <<>> => Exec(id).status = "failed"

----------------------------------------------------------------------------
(* C18 *)

C18_CancelMessage == CancelledSet.error_message

\* the statuses the still-running pipeline writes after an accepted cancel
C18_LateStatuses == {"preparing", "converting", "validating", "completed"}

\* C18 as stated: error_message being set implies that the status is failed
C18_ErrorImpliesFailed ==
    \A id \in Stored : Exec(id).error_message # None => Exec(id).status = "failed"

\* C18 amended: error_message being set implies that the status is failed, except
\* after an accepted cancel: the message is then the cancel message and the later
\* writes of the still-running pipeline may have replaced the status by preparing,
\* converting, validating or completed. Any other message implies failed.
C18_ErrorImpliesFailedOrCancelled ==
    \A id \in Stored :
        Exec(id).error_message # None =>
            \/ Exec(id).status = "failed"
            \/ /\ Exec(id).error_message = C18_CancelMessage
               /\ Exec(id).status \in C18_LateStatuses

\* a cancel was accepted while the task was running, and the task has since
\* run to its end: the record is completed and still carries the cancel message
C18_Witness ==
    \E id \in Stored :
        /\ TaskDone(id)
        /\ Exec(id).error_message = C18_CancelMessage
        /\ Exec(id).status = "completed"

----------------------------------------------------------------------------
(* C19 *)

\* C19: in every reachable state, an execution whose status is completed or failed
\* has completed_at set, whichever path led there
C19_TerminalHasCompletedAt ==
    \A id \in Stored :
        Exec(id).status \in {"completed", "failed"} => Exec(id).completed_at # None

----------------------------------------------------------------------------
(* C20 *)

C20_Range(seq) == {seq[i] : i \in 1..Len(seq)}

\* C20: in every reachable state, apigee_x_bundle being set implies that the
\* generation step is in steps_completed and is not in steps_failed
C20_BundleImpliesGenerated ==
    \A id \in Stored :
        Exec(id).apigee_x_bundle # None =>
            /\ StepNames[GenerateStep] \in C20_Range(Exec(id).steps_completed)
            /\ StepNames[GenerateStep] \notin C20_Range(Exec(id).steps_failed)

\* the bundle has been stored, and a later step of the same execution has failed
C20_Witness ==
    \E id \in Stored :
        /\ Exec(id).apigee_x_bundle # None
        /\ Exec(id).steps_failed # <<>>

----------------------------------------------------------------------------
(* C21 *)

C21_InRange(id) == Exec(id).progress \in 0..100

C21_HundredMeansCompleted(id) == Exec(id).progress = 100 => Exec(id).status = "completed"

C21_NeverLowered ==
    \A id \in Stored : id \in DOMAIN migration_executions' /\ Exec(id).progress' >= Exec(id).progress

\* C21: for every interleaving of the pipeline task with cancels and step failures,
\* progress is an integer between 0 and 100, no write lowers it, and it is 100 only
\* in a record whose status is completed
C21_ProgressBounded ==
    /\ [](\A id \in Stored : C21_InRange(id) /\ C21_HundredMeansCompleted(id))
    /\ [][C21_NeverLowered]_vars

\* a cancel was accepted on the way, and the task has since written progress 100
C21_Witness ==
    \E id \in Stored :
        /\ Exec(id).progress = 100
        /\ Exec(id).error_message = CancelledSet.error_message
        /\ Len(Exec(id).steps_completed) = NumSteps

----------------------------------------------------------------------------
(* C22 *)

\* the progress value perform_migration writes after step k
C22_CheckpointOf(k) ==
    IF k = NumSteps THEN CompletedSet("").progress ELSE CheckpointSet(k, None).progress

C22_Completed(id, k) == StepNames[k] \in C20_Range(Exec(id).steps_completed)

\* C22: the effects of one step become visible in a single update: no reachable
\* state has a step in steps_completed with progress below that step's checkpoint,
\* or the generation step completed with apigee_x_bundle unset, or a step in
\* steps_failed with a status other than failed
C22_StepEffectsAtomic ==
    \A id \in Stored :
        /\ \A k \in 1..NumSteps :
              C22_Completed(id, k) => Exec(id).progress >= C22_CheckpointOf(k)
        /\ C22_Completed(id, GenerateStep) => Exec(id).apigee_x_bundle # None
        /\ Exec(id).steps_failed # <<>> => Exec(id).status = "failed"

----------------------------------------------------------------------------
(* C23 *)

\* an accepted cancel is what the record shows: failed, with the cancel message
C23_Cancelled(id) ==
    /\ Exec(id).status = "failed"
    /\ Exec(id).error_message = CancelledSet.error_message

\* the record after the last write of the pipeline, still carrying the cancel message
C23_CompletedOverCancel(id) ==
    /\ Exec(id).status = "completed"
    /\ Exec(id).progress = 100
    /\ Exec(id).deployment_url # None
    /\ Exec(id).error_message = CancelledSet.error_message

\* a cancel leaves the task where it is
C23_CancelLeavesTask ==
    \A id \in ExecIds \cup {UnknownExecId} : cancel_migration(id) => task' = task

\* a write that replaces the status of a cancelled record keeps the cancel message
C23_LateWrite ==
    \A id \in Stored :
        (C23_Cancelled(id) /\ Exec(id).status' # "failed") =>
            /\ Exec(id).status' \in {"preparing", "converting", "validating", "completed"}
            /\ Exec(id).error_message' = CancelledSet.error_message
            /\ Exec(id).status' = "completed" => C23_CompletedOverCancel(id)'

\* the task of a cancelled record can still take its next step, and when the
\* cancel came during the deployment step that step's completion write follows
C23_TaskGoesOn ==
    \A id \in Stored :
        /\ (C23_Cancelled(id) /\ ~TaskDone(id)) => ENABLED perform_migration(id)
        /\ (C23_Cancelled(id) /\ TaskAt(id, "step_run") /\ task[id].step = NumSteps)
               => ENABLED ems_completed(id)
        /\ (C23_Cancelled(id) /\ TaskAt(id, "complete"))
               => ENABLED (pm_complete(id) /\ C23_CompletedOverCancel(id)')

\* C23: an accepted cancel does not stop the pipeline task: the task keeps its
\* position and goes on writing; a later write may replace status failed by
\* preparing, converting, validating or completed (with progress 100 and
\* deployment_url set) while error_message still is the cancel message, also when
\* the cancel was accepted during the deployment step
C23_CancelIsAdvisory ==
    /\ [][C23_CancelLeavesTask /\ C23_LateWrite]_vars
    /\ []C23_TaskGoesOn

\* the task has written completed over an accepted cancel and has returned
C23_Witness ==
    \E id \in Stored : TaskDone(id) /\ C23_CompletedOverCancel(id) /\ Exec(id).completed_at # None

----------------------------------------------------------------------------
(* C24 *)

C24_StepFailed(id) == Exec(id).steps_failed # <<>>

\* the write of the step wrapper when the step function raises
C24_WrapperWrite ==
    \A id \in ExecIds :
        ems_failed(id) =>
            LET step == StepNames[task[id].step]
            IN  /\ Exec(id).migration_log' =
                      Append(Exec(id).migration_log, "Failed: " \o step \o " - " \o StepError)
                /\ Exec(id).steps_failed' = Append(Exec(id).steps_failed, step)
                /\ Exec(id).steps_completed' = Exec(id).steps_completed
                /\ step \notin C20_Range(Exec(id).steps_completed)
                /\ Exec(id).progress' = Exec(id).progress
                /\ task'[id].pc = "except" /\ task'[id].e = StepError

\* the write of the handler of perform_migration after the wrapper has re-raised
C24_HandlerWrite ==
    \A id \in ExecIds :
        (pm_except(id) /\ C24_StepFailed(id)) =>
            /\ Exec(id).status' = "failed"
            /\ Exec(id).error_message' = StepError
            /\ Exec(id).completed_at' # None
            /\ task'[id].pc = "done"

\* after a step has failed: no progress, bundle or deployment_url write, and no
\* step is started or completed
C24_NothingAfterwards ==
    \A id \in Stored :
        C24_StepFailed(id) =>
            /\ Exec(id).progress' = Exec(id).progress
            /\ Exec(id).apigee_x_bundle' = Exec(id).apigee_x_bundle
            /\ Exec(id).deployment_url' = Exec(id).deployment_url
            /\ Exec(id).current_step' = Exec(id).current_step
            /\ Exec(id).migration_log' = Exec(id).migration_log
            /\ Exec(id).steps_completed' = Exec(id).steps_completed
            /\ Exec(id).steps_failed' = Exec(id).steps_failed

\* the task that caught a step failure does nothing but the handler's write, and
\* ends with the record failed
C24_EndsFailed ==
    \A id \in Stored :
        /\ (C24_StepFailed(id) /\ ~TaskDone(id)) =>
              (TaskAt(id, "except") /\ ENABLED pm_except(id))
        /\ (C24_StepFailed(id) /\ TaskDone(id)) =>
              /\ Exec(id).status = "failed"
              /\ Exec(id).error_message = StepError
              /\ Exec(id).completed_at # None
              /\ Exec(id).deployment_url = None
              /\ Exec(id).progress =
                    C1_Checkpoints[Len(Exec(id).steps_completed) + 2]

\* C24: when a step function raises, the wrapper appends "Failed: <step> - <error>"
\* to migration_log and the step to steps_failed, not to steps_completed; the
\* pipeline then sets status failed, error_message to the error text and
\* completed_at; progress stays at the last checkpoint reached, apigee_x_bundle and
\* deployment_url are not written afterwards, and no later step is started
C24_StepFailureIsFatal ==
    /\ [][C24_WrapperWrite /\ C24_HandlerWrite /\ C24_NothingAfterwards]_vars
    /\ []C24_EndsFailed

\* the validation of the generated bundle raised: the run ended failed at progress 70
C24_Witness ==
    \E id \in Stored :
        /\ TaskDone(id)
        /\ Exec(id).steps_failed = <<StepNames[4]>>
        /\ Exec(id).status = "failed"
        /\ Exec(id).error_message = StepError
        /\ Exec(id).progress = 70

----------------------------------------------------------------------------
(* C25 *)

\* the log of a run in which every step returns
C25_FullLog ==
    [i \in 1..(2 * NumSteps + 1) |->
        IF i = 2 * NumSteps + 1 THEN "Migration completed successfully!"
        ELSE IF i % 2 = 1 THEN "Starting: " \o StepNames[(i + 1) \div 2]
        ELSE "Completed: " \o StepNames[i \div 2]]

C25_IsPrefix(a, b) == Len(a) <= Len(b) /\ a = SubSeq(b, 1, Len(a))

\* the log is a prefix of the full log, or such a prefix ending in "Starting: s"
\* followed by the failure entry of s
C25_InOrder(id) ==
    LET log == Exec(id).migration_log
    IN  \/ C25_IsPrefix(log, C25_FullLog)
        \/ /\ Len(log) >= 2 /\ Len(log) % 2 = 0
           /\ C25_IsPrefix(SubSeq(log, 1, Len(log) - 1), C25_FullLog)
           /\ log[Len(log)] =
                 "Failed: " \o StepNames[Len(log) \div 2] \o " - " \o StepError

\* between "Starting: s" and the next entry, current_step is s
C25_CurrentStep(id) ==
    LET log == Exec(id).migration_log
    IN  (Len(log) % 2 = 1 /\ Len(log) < Len(C25_FullLog) /\ C25_IsPrefix(log, C25_FullLog)) =>
            Exec(id).current_step = StepNames[(Len(log) + 1) \div 2]

C25_LogGrows ==
    \A id \in Stored : C25_IsPrefix(Exec(id).migration_log, Exec(id).migration_log')

C25_Sequential ==
    /\ [][C25_LogGrows]_vars
    /\ [](\A id \in Stored : C25_InOrder(id) /\ C25_CurrentStep(id))

----------------------------------------------------------------------------
(* C26 *)

C26_CompletedIsPrefix(id) == C25_IsPrefix(Exec(id).steps_completed, StepNames)

C26_FailedIsNext(id) ==
    /\ Len(Exec(id).steps_failed) <= 1
    /\ Exec(id).steps_failed # <<>> =>
          /\ Len(Exec(id).steps_completed) < NumSteps
          /\ Exec(id).steps_failed[1] = StepNames[Len(Exec(id).steps_completed) + 1]

C26_NoRepeat(id) ==
    LET both == Exec(id).steps_completed \o Exec(id).steps_failed
    IN  \A i, j \in 1..Len(both) : both[i] = both[j] => i = j

\* C26: no step is retried or resumed: in every reachable state steps_completed
\* is a prefix of the five step names in their order, steps_failed holds at most
\* one name, which is the step right after the completed prefix, and no name
\* occurs twice across the two lists
C26_NoRetry ==
    \A id \in Stored : C26_CompletedIsPrefix(id) /\ C26_FailedIsNext(id) /\ C26_NoRepeat(id)

\* the second step failed after the first had completed, and the task has returned
C26_Witness ==
    \E id \in Stored :
        /\ TaskDone(id)
        /\ Exec(id).steps_completed = <<StepNames[1]>>
        /\ Exec(id).steps_failed = <<StepNames[2]>>

----------------------------------------------------------------------------
(* C27 *)

\* the oracle answered with a score between 0 and 100
C27_UsableScore ==
    /\ C10_Analysed
    /\ ~C12_OracleFellBack
    /\ "complexity_score" \in DOMAIN an_ai
    /\ an_ai.complexity_score \in 0..100

\* the oracle was unavailable, failed, or answered without a score
C27_NoScore ==
    /\ C10_Analysed
    /\ (C12_OracleFellBack \/ "complexity_score" \notin DOMAIN an_ai)

\* (b + s) / 2 for the base score b of the analysed policies
C27_MeanWith(s) ==
    Frac(BaseScore(an_policies)[1] + s * BaseScore(an_policies)[2],
         2 * BaseScore(an_policies)[2])

\* C27: for every base score b and every oracle score s in 0..100, s = 0 included,
\* the final complexity_score is (b + s) / 2; when the oracle gives no usable
\* score (unavailable, failed, or an answer without a score) it is b alone
C27_MeanOrBase ==
    /\ C27_UsableScore =>
          FracEq(an_result.complexity_score, C27_MeanWith(an_ai.complexity_score))
    /\ C27_NoScore => FracEq(an_result.complexity_score, BaseScore(an_policies))

----------------------------------------------------------------------------
(* C28 *)

C28_Known(policy) == policy \in DOMAIN POLICY_MAPPINGS

\* what the tier of a mapping contributes: 10, 25 or 50, and 75 for an unknown policy
C28_Contribution(mapping) ==
    IF ~C28_Known(mapping.edge_policy) THEN 75
    ELSE IF mapping.complexity = "simple" THEN 10
    ELSE IF mapping.complexity = "moderate" THEN 25
    ELSE 50

RECURSIVE C28_TotalWeight(_)
C28_TotalWeight(mappings) ==
    IF mappings = <<>> THEN 0
    ELSE C28_Contribution(Head(mappings)) + C28_TotalWeight(Tail(mappings))

\* min(100, totalWeight / policyCount), and 0 for no policies
C28_Expected(mappings) ==
    IF Len(mappings) = 0 THEN Frac(0, 1)
    ELSE IF C28_TotalWeight(mappings) > 100 * Len(mappings) THEN Frac(100, 1)
    ELSE Frac(C28_TotalWeight(mappings), Len(mappings))

\* the oracle's answer does not enter the score: the stored score is the base score
C28_BaseScoreStored == C10_Analysed /\ ~TruthyNumber(an_ai, "complexity_score")

C28_MappingOf(i) == an_result.policy_mappings[i]

C28_MappingsByTable ==
    /\ Len(an_result.policy_mappings) = Len(an_policies)
    /\ \A i \in 1..Len(an_policies) :
          /\ C28_MappingOf(i).edge_policy = an_policies[i]
          /\ IF C28_Known(an_policies[i])
             THEN C28_MappingOf(i).complexity = POLICY_MAPPINGS[an_policies[i]].complexity
             ELSE /\ C28_MappingOf(i).apigee_x_equivalent = "Manual Migration Required"
                  /\ C28_MappingOf(i).complexity = "complex"
          /\ C28_MappingOf(i).custom_code_required = (C28_MappingOf(i).complexity = "complex")

C28_Example == C10_PolicySet = {"VerifyAPIKey", "Quota", "CustomThing"}

\* C28: every known policy is mapped with its tier and contributes 10, 25 or 50,
\* every unknown one is mapped to "Manual Migration Required" with tier complex
\* and contributes 75; custom_code_required is true exactly for tier complex; the
\* base score is min(100, totalWeight / policyCount), 0 for no policies; for
\* {VerifyAPIKey, Quota, CustomThing}: policy_count 3, custom_policies
\* [CustomThing], base score 95/3
C28_BaseScore ==
    C10_Analysed =>
        /\ C28_MappingsByTable
        /\ an_result.policy_count = Len(an_policies)
        /\ C28_BaseScoreStored =>
              FracEq(an_result.complexity_score, C28_Expected(an_result.policy_mappings))
        /\ C28_Example =>
              /\ an_result.policy_count = 3
              /\ an_result.custom_policies = <<"CustomThing">>
              /\ C28_BaseScoreStored => FracEq(an_result.complexity_score, Frac(95, 3))

\* the example proxy was analysed with an oracle answer that carries no score
C28_Witness ==
    /\ C28_BaseScoreStored
    /\ C28_Example
    /\ FracEq(an_result.complexity_score, Frac(95, 3))
    /\ an_result.complexity_level = "moderate"

----------------------------------------------------------------------------
(* C29 *)

\* the stored file the request was for, and whether it is a bundle
C29_File == proxy_files["p1"]
C29_IsBundle == C29_File.file_type = "zip"

\* a stored file has been analysed
C29_Extracted == C10_Analysed /\ "proxy_id" \in DOMAIN an_result /\ an_result.proxy_id = "p1"

\* the root descriptor and the endpoint documents of the stored file
C29_RootDocuments ==
    IF C29_IsBundle THEN {C29_File.content.main_config} ELSE {C29_File.content}

C29_EndpointDocuments ==
    IF C29_IsBundle
    THEN {C29_File.content.proxies[n] : n \in DOMAIN C29_File.content.proxies}
         \cup {C29_File.content.targets[n] : n \in DOMAIN C29_File.content.targets}
    ELSE {}

C29_DirectoryEntries == IF C29_IsBundle THEN C29_File.content.extracted_policies ELSE {}

\* what one document contributes: nothing if it does not parse
C29_Contribution(document) ==
    IF XmlParses(document)
    THEN ElementTexts(document, "Policy") \cup ElementTexts(document, "Name")
    ELSE {}

C29_Union ==
    UNION {C29_Contribution(d) : d \in C29_RootDocuments \cup C29_EndpointDocuments}
    \cup C29_DirectoryEntries

C29_Malformed == \E d \in C29_RootDocuments \cup C29_EndpointDocuments : ~XmlParses(d)

\* C29: the analysis of a stored file never fails because of a malformed
\* document: the request is answered 200, a root or endpoint document that does
\* not parse contributes no policy (and a root that does not parse gives the
\* proxy name Unknown), and the extracted policies are the duplicate-free union of
\* the contributions of the root descriptor, of every proxy and target endpoint
\* document, and of the policy-directory entries
C29_ExtractionNeverFails ==
    /\ [][\A outcome \in StoredAiOutcomes :
             analyze_stored_proxy("p1", outcome) => (response' = 200 /\ C29_Extracted')]_vars
    /\ [](C29_Extracted =>
             /\ C10_PolicySet = C29_Union
             /\ Len(an_policies) = Cardinality(C29_Union)
             /\ an_result.policy_count = Cardinality(C29_Union)
             /\ (\E d \in C29_RootDocuments : ~XmlParses(d)) => an_result.proxy_name = "Unknown")

\* a bundle whose proxy endpoint document does not parse was analysed: the
\* policies of the root descriptor and of the target endpoint are all there
C29_Witness ==
    /\ C29_Extracted
    /\ C29_IsBundle
    /\ ProxyEndpointBroken \in C29_EndpointDocuments
    /\ C10_PolicySet = {"VerifyAPIKey", "Quota", "CustomThing"}
    /\ an_result.proxy_name = "orders"

----------------------------------------------------------------------------
(* C30 *)

\* the background task of the execution has been scheduled
C30_Scheduled(id) == id \in DOMAIN task

\* the task has returned and the record is completed or failed
C30_Finished(id) ==
    /\ TaskDone(id)
    /\ id \in Stored
    /\ Exec(id).status \in {"completed", "failed"}

\* a step of the task changes neither the response of the request that started it
\* nor any later response
C30_NothingReachesCaller ==
    \A id \in ExecIds : perform_migration(id) => response' = response

\* C30: when every step function and every store update returns, each execution
\* whose task has been scheduled reaches a point where the task has returned and
\* the status is completed or failed, for every interleaving with cancels and
\* every failing step, and stays there; no exception of the pipeline reaches the
\* caller that started the migration
C30_Terminates ==
    /\ \A id \in ExecIds : C30_Scheduled(id) ~> [](C30_Finished(id))
    /\ [][C30_NothingReachesCaller]_vars

\* a run ended failed because the arguments of the generation step could not be built
C30_Witness ==
    \E id \in Stored :
        /\ C30_Finished(id)
        /\ Exec(id).error_message = MappingError
        /\ Exec(id).status = "failed"

====
